---------------------------- MODULE Spec2Model ----------------------------
(***************************************************************************)
(* The Command-pattern demonstration of src/index.js: a Direct Manager     *)
(* (class OrderManager) with placeOrder / trackOrder / cancelOrder, and a  *)
(* Command-Dispatching Manager (class OrderManager1) whose single method   *)
(* execute runs a Command built by PlaceOrderCommand, TrackOrderCommand or *)
(* CancelOrderCommand against the manager's own orders array.              *)
(*                                                                         *)
(* JavaScript values are tagged records, strings are TLA+ strings, an      *)
(* array is the sequence of its elements.  An array is passed to a         *)
(* function by sharing: the result of a command's behaviour therefore      *)
(* tells apart the contents of the array object it was handed (array) from *)
(* what its own parameter is bound to when it returns (local).             *)
(***************************************************************************)
EXTENDS Naturals, Sequences, FiniteSets

VARIABLES
    manager,    \* the Direct Manager object: [orders |-> its collection]
    ret,        \* value returned by the latest Direct Manager call
    threw,      \* whether the latest Direct Manager call raised
    manager2,   \* the Command-Dispatching Manager object: [orders |-> ...]
    ret2,       \* value returned by the latest execute
    threw2,     \* whether the latest execute raised
    console,    \* the lines written by console.log, oldest first
    hist,       \* history: the calls made on the Direct Manager
    hist2       \* history: the calls made on the Command-Dispatching Manager

directVars   == <<manager, ret, threw, hist>>
dispatchVars == <<manager2, ret2, threw2, console, hist2>>
vars         == <<manager, ret, threw, manager2, ret2, threw2, console, hist, hist2>>

---------------------------------------------------------------------------
(* Bounds of the model *)

\* calls made on the Direct Manager (also the length of a lockstep run)
MaxCalls == 4
\* calls of execute on the Command-Dispatching Manager
MaxExec == 3
\* calls made on both managers together in the whole-program specification
MaxOps == 3

---------------------------------------------------------------------------
(* JavaScript values *)

Undefined == [type |-> "undefined", str |-> ""]
Str(s)    == [type |-> "string", str |-> s]

\* the identifiers and order names the script uses (lines 27-29, 81-83)
Ids        == {Str("311"), Str("1234")}
OrderNames == {Str("yuca"), Str("Pad Thai")}

\* the extra arguments a caller may hand to execute(command, ...args)
ArgLists == {<< >>, <<Str("1234"), Str("311")>>}

\* ${v} in a template literal
ToString(v) == IF v.type = "string" THEN v.str ELSE v.type

\* order.id (line 68): every value of the model is a primitive, and a string
\* primitive has no property id, so the lookup yields undefined
IdOf(v) == Undefined
\* the lookup raises a TypeError when v is undefined or null
IdThrows(v) == v.type \in {"undefined", "null"}

---------------------------------------------------------------------------
(* class OrderManager, lines 4-22.  Each method is an operator from the    *)
(* object and the arguments to the object it leaves (this), the value it   *)
(* returns and whether it raised.                                          *)

\* constructor: this.orders = []
OrderManager == [orders |-> << >>]

\* placeOrder with unshift in place of push: id goes to the front
placeOrderUnshift(this, order, id) ==
    [this  |-> [this EXCEPT !.orders = <<id>> \o this.orders],
     ret   |-> Str("You have successfully ordered " \o ToString(order)
                   \o " (" \o ToString(id) \o ")"),
     threw |-> FALSE]

placeOrder(this, order, id) ==
    [this  |-> [this EXCEPT !.orders = Append(this.orders, id)],
     ret   |-> Str("You have successfully ordered " \o ToString(order)
                   \o " (" \o ToString(id) \o ")"),
     threw |-> FALSE]

\* trackOrder that looks the identifier up and answers otherwise when it is
\* not in the collection
trackOrderLooksUp(this, id) ==
    [this  |-> this,
     ret   |-> IF \E i \in 1..Len(this.orders) : this.orders[i] = id
               THEN Str("Your order " \o ToString(id) \o " will arrive in 20 minutes.")
               ELSE Str("Your order " \o ToString(id) \o " was not found."),
     threw |-> FALSE]

trackOrder(this, id) ==
    [this  |-> this,
     ret   |-> Str("Your order " \o ToString(id) \o " will arrive in 20 minutes."),
     threw |-> FALSE]

\* cancelOrder with the test of CancelOrderCommand, order.id !== id
cancelOrderById(this, id) ==
    [this  |-> [this EXCEPT !.orders = SelectSeq(this.orders, LAMBDA order : IdOf(order) # id)],
     ret   |-> Str("You have canceled your order " \o ToString(id)),
     threw |-> FALSE]

\* cancelOrder by splice(indexOf(id), 1): only the first occurrence goes
cancelOrderFirstOnly(this, id) ==
    LET hits == {i \in 1..Len(this.orders) : this.orders[i] = id}
        first == IF hits = {} THEN 0 ELSE CHOOSE i \in hits : \A j \in hits : i <= j
    IN  [this  |-> [this EXCEPT !.orders =
                       IF first = 0 THEN this.orders
                       ELSE SubSeq(this.orders, 1, first - 1)
                                \o SubSeq(this.orders, first + 1, Len(this.orders))],
         ret   |-> Str("You have canceled your order " \o ToString(id)),
         threw |-> FALSE]

\* cancelOrder that drops the most recent occurrence only when id is the
\* last element placed (pop), as an undo would
cancelOrderPopLast(this, id) ==
    [this  |-> [this EXCEPT !.orders =
                   IF this.orders # << >> /\ this.orders[Len(this.orders)] = id
                   THEN SubSeq(this.orders, 1, Len(this.orders) - 1)
                   ELSE SelectSeq(this.orders, LAMBDA order : order # id)],
     ret   |-> Str("You have canceled your order " \o ToString(id)),
     threw |-> FALSE]

\* cancelOrder that rejects an identifier the collection does not hold
cancelOrderStrict(this, id) ==
    [this  |-> [this EXCEPT !.orders = SelectSeq(this.orders, LAMBDA order : order # id)],
     ret   |-> IF \E i \in 1..Len(this.orders) : this.orders[i] = id
               THEN Str("You have canceled your order " \o ToString(id))
               ELSE Undefined,
     threw |-> ~(\E i \in 1..Len(this.orders) : this.orders[i] = id)]

cancelOrder(this, id) ==
    [this  |-> [this EXCEPT !.orders = SelectSeq(this.orders, LAMBDA order : order # id)],
     ret   |-> Str("You have canceled your order " \o ToString(id)),
     threw |-> FALSE]

---------------------------------------------------------------------------
(* class Command and the command factories, lines 53-77.  A behaviour is   *)
(* a closure: the tag of its code and the variables it captured.           *)

\* constructor(execute): this.execute = execute
Command(execute) == [execute |-> execute]

PlaceOrderCommand(order, id) == Command([code |-> "place", order |-> order, id |-> id])
CancelOrderCommand(id) == Command([code |-> "cancel", order |-> Undefined, id |-> id])
TrackOrderCommand(id) == Command([code |-> "track", order |-> Undefined, id |-> id])

\* A behaviour of the caller's own, handed to the Command constructor, that
\* reads the forwarded arguments:
\*   new Command((orders, ...args) => { orders.push(...args); return args[0]; })
CallerCommand == Command([code |-> "caller", order |-> Undefined, id |-> Undefined])

\* PlaceOrderCommand pushing onto a copy of the array it is handed
PlaceOrderBodyOnCopy(env, orders, args) ==
    [array |-> orders,
     local |-> orders,
     log   |-> <<"You have successfully ordered " \o ToString(env.order)
                 \o " (" \o ToString(env.id) \o ")">>,
     ret   |-> Undefined,
     threw |-> FALSE]

\* lines 60-63: orders.push(id) acts on the array object handed in
PlaceOrderBody(env, orders, args) ==
    [array |-> Append(orders, env.id),
     local |-> Append(orders, env.id),
     log   |-> <<"You have successfully ordered " \o ToString(env.order)
                 \o " (" \o ToString(env.id) \o ")">>,
     ret   |-> Undefined,
     threw |-> FALSE]

\* CancelOrderCommand removing by value from the array object it is handed
CancelOrderBodyInPlace(env, orders, args) ==
    [array |-> SelectSeq(orders, LAMBDA order : order # env.id),
     local |-> SelectSeq(orders, LAMBDA order : order # env.id),
     log   |-> <<"You have canceled your order " \o ToString(env.id)>>,
     ret   |-> Undefined,
     threw |-> FALSE]

\* lines 67-70: orders = orders.filter(...) binds the parameter to a new
\* array; the array object handed in is not touched.  The lookup order.id
\* raises on an undefined or null element, before anything is logged.
CancelOrderBody(env, orders, args) ==
    IF \E i \in 1..Len(orders) : IdThrows(orders[i])
    THEN [array |-> orders, local |-> orders, log |-> << >>,
          ret |-> Undefined, threw |-> TRUE]
    ELSE [array |-> orders,
          local |-> SelectSeq(orders, LAMBDA order : IdOf(order) # env.id),
          log   |-> <<"You have canceled your order " \o ToString(env.id)>>,
          ret   |-> Undefined,
          threw |-> FALSE]

\* lines 74-76: the value of console.log(...) is undefined
TrackOrderBody(env, orders, args) ==
    [array |-> orders,
     local |-> orders,
     log   |-> <<"Your order " \o ToString(env.id) \o " will arrive in 20 minutes.">>,
     ret   |-> Undefined,
     threw |-> FALSE]

CallerBody(env, orders, args) ==
    [array |-> orders \o args,
     local |-> orders \o args,
     log   |-> << >>,
     ret   |-> IF args = << >> THEN Undefined ELSE args[1],
     threw |-> FALSE]

\* fn(orders, ...args): the call of a stored function value
Apply(fn, orders, args) ==
    CASE fn.code = "place"  -> PlaceOrderBody(fn, orders, args)
      [] fn.code = "cancel" -> CancelOrderBody(fn, orders, args)
      [] fn.code = "track"  -> TrackOrderBody(fn, orders, args)
      [] fn.code = "caller" -> CallerBody(fn, orders, args)
      [] OTHER -> [array |-> orders, local |-> orders, log |-> << >>,
                   ret |-> Undefined, threw |-> TRUE]

---------------------------------------------------------------------------
(* class OrderManager1, lines 43-51 *)

\* constructor: this.orders = []
OrderManager1 == [orders |-> << >>]

\* execute that forwards the collection alone and drops ...args
executeWithoutArgs(this, command, args) ==
    LET r == Apply(command.execute, this.orders, << >>)
    IN  [this  |-> [this EXCEPT !.orders = r.array],
         log   |-> r.log,
         ret   |-> r.ret,
         threw |-> r.threw]

\* execute(command, ...args): return command.execute(this.orders, ...args).
\* The behaviour is handed the manager's own array object, so the manager's
\* collection afterwards holds what the behaviour left in that object.
execute(this, command, args) ==
    LET r == Apply(command.execute, this.orders, args)
    IN  [this  |-> [this EXCEPT !.orders = r.array],
         log   |-> r.log,
         ret   |-> r.ret,
         threw |-> r.threw]

\* the commands a caller builds
Commands ==
    {PlaceOrderCommand(o, i) : o \in OrderNames, i \in Ids}
        \cup {TrackOrderCommand(i) : i \in Ids}
        \cup {CancelOrderCommand(i) : i \in Ids}
        \cup {CallerCommand}

---------------------------------------------------------------------------
(* The state after construction: lines 25 and 79, nothing called yet *)

Init ==
    /\ manager = OrderManager
    /\ ret = Undefined
    /\ threw = FALSE
    /\ manager2 = OrderManager1
    /\ ret2 = Undefined
    /\ threw2 = FALSE
    /\ console = << >>
    /\ hist = << >>
    /\ hist2 = << >>

---------------------------------------------------------------------------
(* One call on one manager: what it does to that manager's state *)

\* manager.placeOrder(order, id), as on line 27
DoPlaceOrder(order, id) ==
    LET r == placeOrder(manager, order, id)
    IN  /\ manager' = r.this
        /\ ret' = r.ret
        /\ threw' = r.threw
        /\ hist' = Append(hist, [op |-> "place", order |-> order, id |-> id])

\* manager.trackOrder(id), as on line 28
DoTrackOrder(id) ==
    LET r == trackOrder(manager, id)
    IN  /\ manager' = r.this
        /\ ret' = r.ret
        /\ threw' = r.threw
        /\ hist' = Append(hist, [op |-> "track", order |-> Undefined, id |-> id])

\* manager.cancelOrder(id), as on line 29
DoCancelOrder(id) ==
    LET r == cancelOrder(manager, id)
    IN  /\ manager' = r.this
        /\ ret' = r.ret
        /\ threw' = r.threw
        /\ hist' = Append(hist, [op |-> "cancel", order |-> Undefined, id |-> id])

\* manager2.execute(command, ...args), as on lines 81-83
DoExecute(command, args) ==
    LET r == execute(manager2, command, args)
    IN  /\ manager2' = r.this
        /\ console' = console \o r.log
        /\ ret2' = r.ret
        /\ threw2' = r.threw
        /\ hist2' = Append(hist2, [command |-> command, args |-> args])

---------------------------------------------------------------------------
(* The actions: a caller calls one method with arguments of its choice *)

CallPlaceOrder ==
    \E order \in OrderNames, id \in Ids :
        DoPlaceOrder(order, id) /\ UNCHANGED dispatchVars

CallTrackOrder ==
    \E id \in Ids : DoTrackOrder(id) /\ UNCHANGED dispatchVars

CallCancelOrder ==
    \E id \in Ids : DoCancelOrder(id) /\ UNCHANGED dispatchVars

CallExecute ==
    \E command \in Commands, args \in ArgLists :
        DoExecute(command, args) /\ UNCHANGED directVars

\* The same operation on both managers: the direct method on manager and
\* the command of the matching factory, with the same arguments, on manager2
BothPlace ==
    \E order \in OrderNames, id \in Ids :
        DoPlaceOrder(order, id) /\ DoExecute(PlaceOrderCommand(order, id), << >>)

BothTrack ==
    \E id \in Ids : DoTrackOrder(id) /\ DoExecute(TrackOrderCommand(id), << >>)

BothCancel ==
    \E id \in Ids : DoCancelOrder(id) /\ DoExecute(CancelOrderCommand(id), << >>)

---------------------------------------------------------------------------
(* Specifications *)

\* the whole program: calls on either manager, in any order
Next ==
    \/ Len(hist) + Len(hist2) < MaxOps /\ CallPlaceOrder
    \/ Len(hist) + Len(hist2) < MaxOps /\ CallTrackOrder
    \/ Len(hist) + Len(hist2) < MaxOps /\ CallCancelOrder
    \/ Len(hist) + Len(hist2) < MaxOps /\ CallExecute

Spec == Init /\ [][Next]_vars

\* the Direct Manager alone
NextDirect ==
    \/ Len(hist) < MaxCalls /\ CallPlaceOrder
    \/ Len(hist) < MaxCalls /\ CallTrackOrder
    \/ Len(hist) < MaxCalls /\ CallCancelOrder

SpecDirect == Init /\ [][NextDirect]_vars

\* the Command-Dispatching Manager alone
NextDispatch == Len(hist2) < MaxExec /\ CallExecute

SpecDispatch == Init /\ [][NextDispatch]_vars

\* both managers driven by the same sequence of operations
NextBoth ==
    \/ Len(hist) < MaxCalls /\ BothPlace
    \/ Len(hist) < MaxCalls /\ BothTrack
    \/ Len(hist) < MaxCalls /\ BothCancel

SpecBoth == Init /\ [][NextBoth]_vars

---------------------------------------------------------------------------
(* Vocabulary of the properties *)

Last(q) == q[Len(q)]
Range(q) == {q[i] : i \in 1..Len(q)}
Count(q, x) == Cardinality({i \in 1..Len(q) : q[i] = x})

\* t occurs in s as a substring
Contains(s, t) ==
    \E i \in 1..(Len(s) - Len(t) + 1) : SubSeq(s, i, i + Len(t) - 1) = t

\* q without any occurrence of x, the rest in its order
RECURSIVE RemoveAll(_, _)
RemoveAll(q, x) ==
    IF q = << >> THEN << >>
    ELSE IF Head(q) = x THEN RemoveAll(Tail(q), x)
    ELSE <<Head(q)>> \o RemoveAll(Tail(q), x)

PlaceCall(order, id) == [op |-> "place", order |-> order, id |-> id]
TrackCall(id)  == [op |-> "track", order |-> Undefined, id |-> id]
CancelCall(id) == [op |-> "cancel", order |-> Undefined, id |-> id]
ExecCall(command, args) == [command |-> command, args |-> args]

---------------------------------------------------------------------------
(* The Direct Manager *)

\* C1: placeOrder(order, id) leaves the previous collection with id appended
\* as its last element (one element longer, the earlier elements kept in
\* their order, duplicates allowed), does not raise, and returns a string
\* that contains both order and id.
C1_PlaceOrderAppends ==
    [][\A order \in OrderNames, id \in Ids :
          hist' = Append(hist, PlaceCall(order, id)) =>
              /\ Len(manager'.orders) = Len(manager.orders) + 1
              /\ SubSeq(manager'.orders, 1, Len(manager.orders)) = manager.orders
              /\ Last(manager'.orders) = id
              /\ ~threw'
              /\ ret'.type = "string"
              /\ Contains(ret'.str, order.str)
              /\ Contains(ret'.str, id.str)]_vars

\* a placeOrder of an identifier the collection already held, among others
C1_Witness ==
    /\ Len(hist) >= 3
    /\ Last(hist).op = "place"
    /\ Count(manager.orders, Last(hist).id) >= 2
    /\ Cardinality(Range(manager.orders)) = 2
    /\ Contains(ret.str, "Pad Thai (1234)")

\* C2: cancelOrder(id) leaves exactly the previous collection without any
\* occurrence of id, the remaining elements in their order; the collection
\* is unchanged when id is absent; in both cases the same confirmation
\* string containing id is returned.
C2_CancelOrderRemovesAll ==
    [][\A id \in Ids :
          hist' = Append(hist, CancelCall(id)) =>
              /\ manager'.orders = RemoveAll(manager.orders, id)
              /\ id \notin Range(manager'.orders)
              /\ id \notin Range(manager.orders) => manager'.orders = manager.orders
              /\ ret' = Str("You have canceled your order " \o id.str)
              /\ Contains(ret'.str, id.str)]_vars

\* a cancelOrder that removed two occurrences and kept another identifier
C2_Witness ==
    /\ Len(hist) = 4
    /\ hist[1].op = "place" /\ hist[2].op = "place" /\ hist[3].op = "place"
    /\ hist[4].op = "cancel"
    /\ Cardinality({i \in 1..3 : hist[i].id = hist[4].id}) = 2
    /\ Len(manager.orders) = 1
    /\ ret.str = "You have canceled your order " \o hist[4].id.str

\* C3: trackOrder(id) returns the fixed string that contains id and
\* "20 minutes", the same whatever the collection holds, and leaves the
\* collection unchanged.
C3_TrackOrderFixed ==
    [][\A id \in Ids :
          hist' = Append(hist, TrackCall(id)) =>
              /\ manager' = manager
              /\ ret' = Str("Your order " \o id.str \o " will arrive in 20 minutes.")
              /\ Contains(ret'.str, id.str)
              /\ Contains(ret'.str, "20 minutes")]_vars

\* a trackOrder of an identifier that was placed and cancelled, on a
\* collection that holds another identifier
C3_Witness ==
    /\ Len(hist) = 4
    /\ Last(hist).op = "track"
    /\ \E i, j \in 1..3 :
           /\ i < j
           /\ hist[i].op = "place" /\ hist[i].id = Last(hist).id
           /\ hist[j].op = "cancel" /\ hist[j].id = Last(hist).id
    /\ manager.orders # << >>
    /\ Last(hist).id \notin Range(manager.orders)
    /\ Contains(ret.str, "20 minutes")

\* C5: right after any cancelOrder(id) the collection holds no occurrence of
\* id, whatever came before; in particular after placing id and then
\* cancelling it.
C5_CancelledIdAbsent ==
    (Len(hist) > 0 /\ Last(hist).op = "cancel")
        => Last(hist).id \notin Range(manager.orders)

\* id placed twice, the second time right before it is cancelled, while the
\* other identifier stays
C5_Witness ==
    /\ Len(hist) = 4
    /\ hist[4].op = "cancel"
    /\ hist[3].op = "place" /\ hist[3].id = hist[4].id
    /\ hist[1].op = "place" /\ hist[1].id = hist[4].id
    /\ hist[2].op = "place" /\ hist[2].id # hist[4].id
    /\ manager.orders = <<hist[2].id>>

\* the identifiers of the placeOrder calls of h, from call k on, that no
\* later cancelOrder of the same identifier follows
RECURSIVE Surviving(_, _)
Surviving(h, k) ==
    IF k > Len(h) THEN << >>
    ELSE (IF /\ h[k].op = "place"
             /\ \A j \in (k + 1)..Len(h) :
                    ~(h[j].op = "cancel" /\ h[j].id = h[k].id)
          THEN <<h[k].id>> ELSE << >>) \o Surviving(h, k + 1)

\* the placeOrder(_, id) calls of h since its most recent cancelOrder(id)
PlacedSinceCancel(h, id) ==
    LET cancels == {j \in 1..Len(h) : h[j] = CancelCall(id)}
        since == IF cancels = {} THEN 0
                 ELSE CHOOSE j \in cancels : \A c \in cancels : c <= j
    IN  Cardinality({i \in (since + 1)..Len(h) : h[i].op = "place" /\ h[i].id = id})

\* C10: in every reachable state the occurrences of each id in the
\* collection number the placeOrder(_, id) calls since the most recent
\* cancelOrder(id) (since construction if none), and the collection is the
\* surviving identifiers in the order they were placed.
C10_CollectionIsSurvivingPlacements ==
    /\ \A id \in Ids : Count(manager.orders, id) = PlacedSinceCancel(hist, id)
    /\ manager.orders = Surviving(hist, 1)

\* an identifier placed, cancelled and placed again beside another one
C10_Witness ==
    /\ Len(hist) = 4
    /\ \E id \in Ids :
           /\ hist[2].op = "place" /\ hist[2].id = id
           /\ hist[3] = CancelCall(id)
           /\ hist[4].op = "place" /\ hist[4].id = id
           /\ hist[1].op = "place" /\ hist[1].id # id
           /\ manager.orders = <<hist[1].id, id>>

---------------------------------------------------------------------------
(* The Command-Dispatching Manager *)

\* C4: execute(command, ...args) does what invoking the command's wrapped
\* behaviour with the manager's own collection and args does: the manager's
\* collection, the logged lines, the returned value and the raising are
\* those of the behaviour, and nothing else changes.
C4_ExecuteIsTheBehaviour ==
    [][\A command \in Commands, args \in ArgLists :
          hist2' = Append(hist2, ExecCall(command, args)) =>
              LET r == Apply(command.execute, manager2.orders, args)
              IN  /\ manager2'.orders = r.array
                  /\ DOMAIN manager2' = DOMAIN manager2
                  /\ console' = console \o r.log
                  /\ ret2' = r.ret
                  /\ threw2' = r.threw
                  /\ UNCHANGED directVars]_vars

\* an execute of the caller's behaviour with extra arguments, which reached
\* the collection and the returned value
C4_Witness ==
    /\ Len(hist2) >= 2
    /\ Last(hist2).command = CallerCommand
    /\ Last(hist2).args = <<Str("1234"), Str("311")>>
    /\ ret2 = Str("1234")
    /\ Len(manager2.orders) >= 3
    /\ Last(manager2.orders) = Str("311")
    /\ console # << >>

\* C6: execute(PlaceOrderCommand(order, id)) appends id to the manager's
\* collection and logs a confirmation naming order and id; an
\* execute(TrackOrderCommand(id)) logs the ETA message and leaves the
\* collection unchanged, from every prior state.
C6_PlaceThenTrackCommand ==
    [][\A command \in Commands, args \in ArgLists :
          hist2' = Append(hist2, ExecCall(command, args)) =>
              /\ command.execute.code = "place" =>
                     /\ manager2'.orders = Append(manager2.orders, command.execute.id)
                     /\ Len(console') = Len(console) + 1
                     /\ SubSeq(console', 1, Len(console)) = console
                     /\ Contains(Last(console'), command.execute.order.str)
                     /\ Contains(Last(console'), command.execute.id.str)
              /\ command.execute.code = "track" =>
                     /\ manager2' = manager2
                     /\ console' = Append(console, "Your order "
                            \o command.execute.id.str \o " will arrive in 20 minutes.")]_vars

\* PlaceOrderCommand("Pad Thai", "1234") executed, then TrackOrderCommand("1234")
C6_Witness ==
    /\ Len(hist2) >= 2
    /\ hist2[Len(hist2) - 1].command = PlaceOrderCommand(Str("Pad Thai"), Str("1234"))
    /\ Last(hist2).command = TrackOrderCommand(Str("1234"))
    /\ Last(manager2.orders) = Str("1234")
    /\ console[Len(console) - 1] = "You have successfully ordered Pad Thai (1234)"
    /\ Last(console) = "Your order 1234 will arrive in 20 minutes."

\* C9: execute(CancelOrderCommand(id)) leaves the manager's collection
\* exactly as it was, id present or absent, and still logs the cancellation
\* confirmation; no execute ever shrinks the collection.
C9_CancelCommandIsNoOp ==
    [][/\ \A command \in Commands, args \in ArgLists :
            (hist2' = Append(hist2, ExecCall(command, args))
                /\ command.execute.code = "cancel") =>
                /\ manager2' = manager2
                /\ console' = Append(console, "You have canceled your order "
                       \o command.execute.id.str)
       /\ Len(manager2'.orders) >= Len(manager2.orders)
       /\ SubSeq(manager2'.orders, 1, Len(manager2.orders)) = manager2.orders]_vars

\* CancelOrderCommand(id) executed on a collection that holds id, and holds
\* it still
C9_Witness ==
    /\ Len(hist2) >= 2
    /\ Last(hist2).command.execute.code = "cancel"
    /\ Last(hist2).command.execute.id \in Range(manager2.orders)
    /\ Last(console) = "You have canceled your order "
           \o Last(hist2).command.execute.id.str

---------------------------------------------------------------------------
(* The two managers together *)

\* C7: after the same sequence of place, track and cancel operations the
\* two managers hold equal collections, and the message the direct method
\* returned is the message the command logged.
C7_ManagersAgree ==
    /\ manager.orders = manager2.orders
    /\ Len(hist) > 0 =>
           /\ ret.type = "string"
           /\ console # << >>
           /\ ret.str = Last(console)

\* C8: no call raises, whatever the identifier (placed, never placed,
\* cancelled, duplicated), and every operation can be called in every state.
C8_NothingRaises ==
    /\ ~threw
    /\ ~threw2
    /\ Len(hist) + Len(hist2) < MaxOps =>
           /\ ENABLED CallPlaceOrder
           /\ ENABLED CallTrackOrder
           /\ ENABLED CallCancelOrder
           /\ \A command \in Commands, args \in ArgLists :
                  ENABLED (DoExecute(command, args) /\ UNCHANGED directVars)

\* both managers were asked to cancel an identifier that was never placed,
\* and the dispatching one to track it
C8_Witness ==
    /\ Len(hist) = 1
    /\ hist[1].op = "cancel"
    /\ manager.orders = << >>
    /\ Len(hist2) = 2
    /\ hist2[1].command = CancelOrderCommand(hist[1].id)
    /\ hist2[2].command = TrackOrderCommand(hist[1].id)
    /\ manager2.orders = << >>
    /\ Len(console) = 2

=============================================================================
